---- MODULE Spec2Model ----
(***************************************************************************)
(* Data Studio community connectors (GitHub): the connector helper         *)
(* (schema getters, record transformation), the paginated stars connector, *)
(* the connector composer and the memoized client handle.                 *)
(*                                                                         *)
(* Reading of the sources.  The files are drafts: several identifiers are  *)
(* bound nowhere where they are read (fieldMapping for this.fieldMapping,  *)
(* makeSchemas for makeSchemas_, connectorDefs for connectors, ...).  Such *)
(* an identifier is read as the binding of that name which the enclosing   *)
(* object or function declares.  Everything that has a defined meaning in  *)
(* JavaScript (conditions, argument passing, return values, evaluation     *)
(* order) is modelled as written.  The model covers the methods and       *)
(* closures the connectors are made of; the glue that assembles a          *)
(* connector object out of them is not part of it.                         *)
(*                                                                         *)
(* JavaScript values are strings here: "undefined" is undefined, "null"    *)
(* null, "false" the boolean false, "0" the number zero, "" the empty      *)
(* string.  An optional object member is a sequence of length 0 (absent)   *)
(* or 1 (present).                                                         *)
(***************************************************************************)
EXTENDS Integers, Sequences, FiniteSets, TLC

VARIABLES
    connector,      \* the members of a helper-built connector object
    helperCall,     \* the last getData call made on it
    helperOut,      \* the outcome of that call
    keyedSchema,    \* makeSchemaGetters_: let keyedSchema   (0 or 1 element)
    unkeyedSchema,  \* makeSchemaGetters_: let unkeyedSchema (0 or 1 element)
    knownConfig,    \* makeSchemaGetters_: let knownConfig   (0 or 1 element)
    getterLog,      \* the schema-getter calls made so far, oldest first
    schemaInput,    \* makeSchemas_: the schema it is given (0 or 1 element)
    schemaViews,    \* makeSchemas_: what it returned or threw (0 or 1 element)
    starsPc,        \* githubStarsConnector.getData: where the call stands
    starsRequest,   \* its request (0 or 1 element)
    stars,          \* var stars
    totalPages,     \* var totalPages
    pageIndex,      \* var i
    fetchLog,       \* the UrlFetchApp.fetch calls made by the call, in order
    starsOut,       \* what the call returned or threw (0 or 1 element)
    composer,       \* combineConnectors: its options (connectors, validateConfig)
    composedCall,   \* the last getSchema/getData call on the composed connector
    composedOut,    \* what that call returned or threw
    delegated,      \* the subconnector methods invoked during that call
    userConfig,     \* makeGetConfig: the normalizedConfig object it returns
    configOut,      \* what the last composed getConfig call returned
    combineOptions, \* the options combineConnectors is called with
    combined,       \* what combineConnectors returned or threw (0 or 1 element)
    instance,       \* singleton: let instance (0 elements: the sentinel)
    factoryCalls,   \* how many times the singleton's func has been called
    handleLog       \* the calls made on getOAuthService, oldest first

transformVars == <<connector, helperCall, helperOut>>

schemaVars == <<keyedSchema, unkeyedSchema, knownConfig, getterLog,
                schemaInput, schemaViews>>

starsVars == <<starsPc, starsRequest, stars, totalPages, pageIndex, fetchLog,
               starsOut>>

composerVars ==
    <<composer, composedCall, composedOut, delegated, userConfig, configOut,
      combineOptions, combined>>

handleVars == <<instance, factoryCalls, handleLog>>

vars == <<transformVars, schemaVars, starsVars, composerVars, handleVars>>

-----------------------------------------------------------------------------
(* Bounds *)

MaxRecords == 2
MaxCalls == 3
MaxPages == 2
MaxFields == 3
MaxEvents == 4

-----------------------------------------------------------------------------
(* JavaScript values *)

Undefined == "undefined"

None == <<>>

Some(x) == <<x>>

\* A call that returned v, and a call that threw e
Return(v) == [ok |-> TRUE, v |-> v]

Throw(e) == [ok |-> FALSE, error |-> e]

\* ToBoolean of a value
Truthy(v) == v \notin {Undefined, "null", "false", "0", ""}

\* obj[key]: undefined when the property is absent
Get(obj, key) == IF key \in DOMAIN obj THEN obj[key] ELSE Undefined

\* The image of a sequence
Range(s) == {s[i] : i \in 1..Len(s)}

\* Sequences over S of length at most n
SeqsUpTo(S, n) == UNION {[1..k -> S] : k \in 0..n}

\* Sequences over S without repetition, of length at most n
InjSeqsUpTo(S, n) ==
    {s \in SeqsUpTo(S, n) : \A i, j \in 1..Len(s) : i # j => s[i] # s[j]}

\* All mappings from a subset of K to V
Mappings(K, V) == UNION {[D -> V] : D \in SUBSET K}

-----------------------------------------------------------------------------
(* Schemas *)

Field(n, l) == [name |-> n, label |-> l]

\* schema.forEach(field => keyedSchema[field.name] = field)
makeKeyedSchema(schema) ==
    [n \in {schema[i].name : i \in 1..Len(schema)} |->
        LET last == CHOOSE i \in 1..Len(schema) :
                        /\ schema[i].name = n
                        /\ \A j \in 1..Len(schema) : schema[j].name = n => j <= i
        IN  schema[last]]

\* A keyed schema as the user writes it: the keys in Object.keys order, and
\* the field under each key.
KeyedObject(schema) ==
    [keys |-> [i \in 1..Len(schema) |-> schema[i].name],
     at   |-> makeKeyedSchema(schema)]

\* A string that is an element of an array meant to hold field objects
StringEntry(name) == [string |-> name]

\* mapObject_(keyedSchema, (field, name) => {field.name = field.name || name;
\* return name}): the array holds the NAMES.
makeUnkeyedSchema(keyedObj) ==
    [i \in 1..Len(keyedObj.keys) |-> StringEntry(keyedObj.keys[i])]

\* makeSchemas_: the two views of a schema given as an array or as an object
makeSchemas_(isArray, schema) ==
    IF isArray
    THEN [unkeyedSchema |-> schema, keyedSchema |-> makeKeyedSchema(schema)]
    ELSE [unkeyedSchema |-> makeUnkeyedSchema(KeyedObject(schema)),
          keyedSchema   |-> KeyedObject(schema).at]

-----------------------------------------------------------------------------
(* Schema getters of a schema given as a function: makeSchemaGetters_ *)

\* request.configParams: the user's values for any of the parameters
ParamNames == {"p", "q"}

ConfigParams == Mappings(ParamNames, {"1", "2"})

\* The connector's schema function, schema.call(this, request, authClient):
\* it needs parameter p and throws without it; the fields it returns (as an
\* array) carry the parameter values as labels.
schemaSource(request) ==
    IF Get(request.configParams, "p") = Undefined
    THEN Throw([type |-> "Error", about |-> "schema function"])
    ELSE Return([isArray |-> TRUE,
                 schema  |-> <<Field("a", Get(request.configParams, "p")),
                               Field("b", Get(request.configParams, "q"))>>])

\* badShallowCompare_: every key of lhs has a strictly equal value in rhs
badShallowCompare_(lhs, rhs) ==
    \A key \in DOMAIN lhs : lhs[key] = Get(rhs, key)

\* The body of refreshSchema's if: knownConfig is assigned first, then the
\* schema function is called and both views are replaced; a throw of the
\* schema function leaves the views as they were.
Recompute(cache, request) ==
    LET produced == schemaSource(request)
    IN  IF produced.ok
        THEN [knownConfig   |-> Some(request.configParams),
              keyedSchema   |-> Some(makeSchemas_(produced.v.isArray,
                                         produced.v.schema).keyedSchema),
              unkeyedSchema |-> Some(makeSchemas_(produced.v.isArray,
                                         produced.v.schema).unkeyedSchema),
              invoked       |-> 1,
              thrown        |-> None]
        ELSE [knownConfig   |-> Some(request.configParams),
              keyedSchema   |-> cache.keyedSchema,
              unkeyedSchema |-> cache.unkeyedSchema,
              invoked       |-> 1,
              thrown        |-> Some(produced.error)]

\* A refreshSchema that calls the schema function on every call
refreshSchema_always(cache, request) == Recompute(cache, request)

\* refreshSchema: if(knownConfig && !badShallowCompare_(request.configParams,
\* knownConfig)) { recompute }.  knownConfig starts as null.
refreshSchema(cache, request) ==
    IF cache.knownConfig # None
          /\ ~badShallowCompare_(request.configParams, cache.knownConfig[1])
    THEN Recompute(cache, request)
    ELSE [knownConfig   |-> cache.knownConfig,
          keyedSchema   |-> cache.keyedSchema,
          unkeyedSchema |-> cache.unkeyedSchema,
          invoked       |-> 0,
          thrown        |-> None]

\* The closure variables of makeSchemaGetters_
SchemaCache ==
    [knownConfig |-> knownConfig, keyedSchema |-> keyedSchema,
     unkeyedSchema |-> unkeyedSchema]

\* What a getter returns after the refresh: getUnkeyedSchema the unkeyed view,
\* getKeyedSchema the keyed view, getSchema the wrapper {schema: unkeyed view}
GetterReturn(op, cache) ==
    IF op = "getKeyedSchema" THEN [value |-> cache.keyedSchema]
    ELSE IF op = "getUnkeyedSchema" THEN [value |-> cache.unkeyedSchema]
    ELSE [wrapper |-> [schema |-> cache.unkeyedSchema]]

\* One getter call with the given request: refreshSchema, then the return
Getter(op, request) ==
    LET after == refreshSchema(SchemaCache, request)
    IN  /\ Len(getterLog) < MaxCalls
        /\ knownConfig' = after.knownConfig
        /\ keyedSchema' = after.keyedSchema
        /\ unkeyedSchema' = after.unkeyedSchema
        /\ getterLog' = Append(getterLog,
              [op           |-> op,
               configParams |-> request.configParams,
               invoked      |-> after.invoked,
               outcome      |-> IF after.thrown # None
                                THEN Throw(after.thrown[1])
                                ELSE Return(GetterReturn(op, after))])
        /\ UNCHANGED <<schemaInput, schemaViews>>
        /\ UNCHANGED <<transformVars, starsVars, composerVars, handleVars>>

getUnkeyedSchema ==
    \E cp \in ConfigParams : Getter("getUnkeyedSchema", [configParams |-> cp])

getKeyedSchema ==
    \E cp \in ConfigParams : Getter("getKeyedSchema", [configParams |-> cp])

getSchema ==
    \E cp \in ConfigParams : Getter("getSchema", [configParams |-> cp])

\* makeSchemaGetters_(schema) with schema a function: nothing is computed
SchemaInit ==
    /\ keyedSchema = None
    /\ unkeyedSchema = None
    /\ knownConfig = None
    /\ getterLog = <<>>
    /\ schemaInput = None
    /\ schemaViews = None
    /\ connector = None
    /\ helperCall = None
    /\ helperOut = None
    /\ starsPc = "idle"
    /\ starsRequest = None
    /\ stars = <<>>
    /\ totalPages = 0
    /\ pageIndex = 0
    /\ fetchLog = <<>>
    /\ starsOut = None
    /\ instance = None
    /\ factoryCalls = 0
    /\ handleLog = <<>>
    /\ composer = None
    /\ userConfig = None
    /\ configOut = None
    /\ combineOptions = None
    /\ combined = None
    /\ composedCall = None
    /\ composedOut = None
    /\ delegated = <<>>

SchemaNext == getUnkeyedSchema \/ getKeyedSchema \/ getSchema

SpecSchema == SchemaInit /\ [][SchemaNext]_vars

(* Claims about the schema getters *)

\* The schema inside what a getter returned (0 or 1 element; 0 is null)
ReturnedSchema(entry) ==
    IF entry.op = "getSchema" THEN entry.outcome.v.wrapper.schema
    ELSE entry.outcome.v.value

\* What the getter has to return for the schema the function produces
ProducedSchema(op, configParams) ==
    LET produced == schemaSource([configParams |-> configParams]).v
        views    == makeSchemas_(produced.isArray, produced.schema)
    IN  IF op = "getKeyedSchema" THEN Some(views.keyedSchema)
        ELSE Some(views.unkeyedSchema)

SourceSucceeds(configParams) ==
    schemaSource([configParams |-> configParams]).ok

\* Some key of the incoming params has a value not strictly equal to the
\* cached one
ParamsDiffer(incoming, cached) ==
    \E key \in DOMAIN incoming : incoming[key] # Get(cached, key)

\* C4: of two consecutive getter calls with identical configParams, the
\* second does not invoke the schema function, so the two invoke it at most
\* once in total.
C4_SameParamsServedFromCache ==
    \A k \in 2..Len(getterLog) :
        getterLog[k].configParams = getterLog[k - 1].configParams
        => /\ getterLog[k].invoked = 0
           /\ getterLog[k - 1].invoked + getterLog[k].invoked <= 1

\* Two consecutive calls, through different getters, had identical params.
C4_Witness ==
    \E k \in 2..Len(getterLog) :
        /\ getterLog[k].configParams = getterLog[k - 1].configParams
        /\ getterLog[k].configParams = [p |-> "1", q |-> "2"]
        /\ getterLog[k].op # getterLog[k - 1].op

\* C5: a getter call whose configParams differ from those of the previous
\* call invokes the schema function again and returns the schema it produces
\* for the new params.
C5_ChangedParamsRecompute ==
    \A k \in 2..Len(getterLog) :
        (/\ ParamsDiffer(getterLog[k].configParams,
                         getterLog[k - 1].configParams)
         /\ SourceSucceeds(getterLog[k].configParams))
        => /\ getterLog[k].invoked = 1
           /\ getterLog[k].outcome.ok
           /\ ReturnedSchema(getterLog[k]) =
                 ProducedSchema(getterLog[k].op, getterLog[k].configParams)

\* C6: the first getter call after construction invokes the schema function
\* and returns the schema it produces, never null.
C6_FirstCallComputes ==
    (Len(getterLog) >= 1 /\ SourceSucceeds(getterLog[1].configParams))
    => /\ getterLog[1].invoked = 1
       /\ getterLog[1].outcome.ok
       /\ ReturnedSchema(getterLog[1]) # None
       /\ ReturnedSchema(getterLog[1]) =
             ProducedSchema(getterLog[1].op, getterLog[1].configParams)

-----------------------------------------------------------------------------
(* Record transformation: baseConnector_ *)

\* Names of schema fields, and the keys a raw record may carry
FieldNames == {"a", "b"}

RawKeys == {"a", "b", "n"}

\* The transformer functions a connector may configure: each wraps its input
ApplyTransformer(t, v) == t \o "(" \o v \o ")"

\* findField: the raw value under the remapped key when fieldMapping names a
\* (truthy) key for the field, and under the field's own name otherwise
findField(conn, fieldName, receivedRow) ==
    IF conn.fieldMapping # None /\ Truthy(Get(conn.fieldMapping[1], fieldName))
    THEN Get(receivedRow, Get(conn.fieldMapping[1], fieldName))
    ELSE Get(receivedRow, fieldName)

\* A getDefaultField that takes a falsy entry of defaultFields for none
getDefaultField_truthy(conn, fieldName) ==
    IF conn.defaultFields # None
          /\ Truthy(Get(conn.defaultFields[1], fieldName))
    THEN Get(conn.defaultFields[1], fieldName)
    ELSE conn.defaultField

\* `${row}` for a row that is an object: Object.prototype.toString
templateText(row) == "[object Object]"

\* getDefaultField: defaultFields[fieldName] when defined, else defaultField
getDefaultField(conn, fieldName) ==
    IF conn.defaultFields # None
          /\ Get(conn.defaultFields[1], fieldName) # Undefined
    THEN Get(conn.defaultFields[1], fieldName)
    ELSE conn.defaultField

\* findFieldOrDefault: the found value, else the default, else an Error whose
\* message interpolates the field name and the row (an object: its string
\* form is "[object Object]")
findFieldOrDefault(conn, fieldName, receivedRow) ==
    IF findField(conn, fieldName, receivedRow) # Undefined
    THEN Return(findField(conn, fieldName, receivedRow))
    ELSE IF getDefaultField(conn, fieldName) # Undefined
    THEN Return(getDefaultField(conn, fieldName))
    ELSE Throw([type |-> "Error", about |-> "Couldn't find field",
                field |-> fieldName, row |-> templateText(receivedRow)])

\* transformField: transformers[fieldName] applied when configured
transformField(conn, receivedField, fieldName) ==
    IF conn.transformers # None /\ Truthy(Get(conn.transformers[1], fieldName))
    THEN ApplyTransformer(Get(conn.transformers[1], fieldName), receivedField)
    ELSE receivedField

\* A transformNamedField that transforms what the record holds and passes a
\* default through as it is
transformNamedField_rawOnly(conn, fieldName, receivedRow) ==
    IF findField(conn, fieldName, receivedRow) # Undefined
    THEN Return(transformField(conn, findField(conn, fieldName, receivedRow),
                               fieldName))
    ELSE findFieldOrDefault(conn, fieldName, receivedRow)

\* transformNamedField: resolve, then transform
transformNamedField(conn, fieldName, receivedRow) ==
    LET receivedField == findFieldOrDefault(conn, fieldName, receivedRow)
    IN  IF receivedField.ok
        THEN Return(transformField(conn, receivedField.v, fieldName))
        ELSE receivedField

\* The outcome of array.map over calls that may throw: the first throw in
\* index order ends the map
MapOutcome(cells) ==
    IF \A i \in 1..Len(cells) : cells[i].ok
    THEN Return([i \in 1..Len(cells) |-> cells[i].v])
    ELSE cells[CHOOSE i \in 1..Len(cells) :
                   ~cells[i].ok /\ \A j \in 1..(i - 1) : cells[j].ok]

\* A transformRow that fills the row in the reverse of the requested order
transformRow_reversed(conn, receivedRow, fieldNames) ==
    MapOutcome([i \in 1..Len(fieldNames) |->
                   transformNamedField(conn, fieldNames[Len(fieldNames) + 1 - i],
                                       receivedRow)])

\* transformRow: fieldNames.map(transformNamedField)
transformRow(conn, receivedRow, fieldNames) ==
    MapOutcome([i \in 1..Len(fieldNames) |->
                   transformNamedField(conn, fieldNames[i], receivedRow)])

\* genericMap_ / mapObject_: an array is mapped in index order, an object in
\* Object.keys order; receivedData.rows lists the elements in that order
\* and receivedData.keys their indices or keys
transformData(conn, receivedData, fieldNames) ==
    MapOutcome([i \in 1..Len(receivedData.rows) |->
                   transformRow(conn, receivedData.rows[i], fieldNames)])

\* A schemaForFields that lists the requested fields in name order instead
\* of request order
schemaForFields_sorted(keyed, fieldNames) ==
    LET wanted == Range(fieldNames) \cap DOMAIN keyed
        first  == IF "a" \in wanted THEN <<keyed["a"]>> ELSE <<>>
        second == IF "b" \in wanted THEN <<keyed["b"]>> ELSE <<>>
    IN  first \o second

\* keyedSchema[fieldName] for each requested name; a name the schema lacks
\* gives undefined
schemaForFields(keyed, fieldNames) ==
    [i \in 1..Len(fieldNames) |->
        IF fieldNames[i] \in DOMAIN keyed
        THEN keyed[fieldNames[i]]
        ELSE Field(Undefined, Undefined)]

\* transformContent: getKeyedSchema, JSON.parse, then the result object, its
\* members evaluated in the order schema, cachedData, rows
transformContent(conn, receivedContent, fieldNames) ==
    IF ~receivedContent.parses
    THEN Throw([type |-> "SyntaxError", about |-> "JSON.parse"])
    ELSE IF conn.getKeyedSchema = None /\ fieldNames # <<>>
    THEN Throw([type |-> "TypeError", about |-> "keyedSchema is null"])
    ELSE LET rows == transformData(conn, receivedContent.data, fieldNames)
         IN  IF ~rows.ok
             THEN rows
             ELSE Return(
                 [schema |-> IF fieldNames = <<>> THEN <<>>
                             ELSE schemaForFields(conn.getKeyedSchema[1],
                                                  fieldNames),
                  cachedData |-> FALSE,
                  rows |-> [i \in 1..Len(rows.v) |-> [values |-> rows.v[i]]]])

\* getData: fetchContent (UrlFetchApp.fetch may throw), then transformContent
helperGetData(conn, fetched, fieldNames) ==
    IF ~fetched.ok
    THEN Throw([type |-> "Error", about |-> "UrlFetchApp.fetch"])
    ELSE transformContent(conn, fetched.content, fieldNames)

(* The inputs of the record transformation *)

RawValues(k) == IF k = "a" THEN {"1", "3"}
                ELSE IF k = "b" THEN {"false"}
                ELSE {"9"}

\* Raw records: objects with any subset of the keys
RawRecords ==
    {r \in Mappings(RawKeys, {"1", "3", "false", "9"}) :
        \A k \in DOMAIN r : r[k] \in RawValues(k)}

\* Object.keys of a payload object with n members (insertion order, which
\* need not be sorted), and the indices of an array of length n
ObjectKeys(n) == [i \in 1..n |-> <<"k2", "k1", "k3", "k0">>[i]]

ArrayKeys(n) == [i \in 1..n |-> ToString(i - 1)]

RawPayloads ==
    {[isArray |-> isArray,
      keys    |-> IF isArray THEN ArrayKeys(Len(rows)) ELSE ObjectKeys(Len(rows)),
      rows    |-> rows] :
        isArray \in BOOLEAN, rows \in SeqsUpTo(RawRecords, MaxRecords)}

\* What fetchContent yields: a throw, a text that does not parse, a payload
Fetches ==
    {[ok |-> FALSE]}
    \cup {[ok |-> TRUE, content |-> [parses |-> FALSE]]}
    \cup {[ok |-> TRUE, content |-> [parses |-> TRUE, data |-> d]] :
             d \in RawPayloads}

RequestedFields == InjSeqsUpTo(FieldNames, 2)

\* The schema a connector declares, in declaration order
DeclaredSchemas ==
    {<<Field("a", "A"), Field("b", "B")>>,
     <<Field("b", "B"), Field("a", "A")>>,
     <<Field("a", "A")>>}

\* The members of a connector object that the transformation reads.
\* getKeyedSchema is what this.getKeyedSchema(...) returns: the keyed view
\* of the declared schema, or null.
Connectors ==
    {[schema         |-> s,
      getKeyedSchema |-> IF isNull THEN None ELSE Some(makeKeyedSchema(s)),
      fieldMapping   |-> fm,
      defaultFields  |-> dfs,
      defaultField   |-> df,
      transformers   |-> tr] :
        s \in DeclaredSchemas, isNull \in BOOLEAN,
        fm \in {None, Some([a |-> "n"])},
        dfs \in {None, Some([b |-> "0"])},
        df \in {Undefined, "d"},
        tr \in {None, Some([a |-> "fmt"])}}

TransformInit ==
    /\ connector \in Connectors
    /\ helperCall = None
    /\ helperOut = None
    /\ keyedSchema = None
    /\ unkeyedSchema = None
    /\ knownConfig = None
    /\ getterLog = <<>>
    /\ schemaInput = None
    /\ schemaViews = None
    /\ starsPc = "idle"
    /\ starsRequest = None
    /\ stars = <<>>
    /\ totalPages = 0
    /\ pageIndex = 0
    /\ fetchLog = <<>>
    /\ starsOut = None
    /\ instance = None
    /\ factoryCalls = 0
    /\ handleLog = <<>>
    /\ composer = None
    /\ userConfig = None
    /\ configOut = None
    /\ combineOptions = None
    /\ combined = None
    /\ composedCall = None
    /\ composedOut = None
    /\ delegated = <<>>

\* getData(request, fieldNames, authClient) on the connector
HelperGetData ==
    /\ helperCall = None
    /\ \E fetched \in Fetches, fieldNames \in RequestedFields :
          /\ helperCall' = Some([fetched |-> fetched, fieldNames |-> fieldNames])
          /\ helperOut' = Some(helperGetData(connector, fetched, fieldNames))
    /\ UNCHANGED <<connector, schemaVars, starsVars, composerVars, handleVars>>

\* The host has taken the outcome; the request is gone
HelperDone ==
    /\ helperCall # None
    /\ helperCall' = None
    /\ helperOut' = None
    /\ UNCHANGED <<connector, schemaVars, starsVars, composerVars, handleVars>>

TransformNext == HelperGetData \/ HelperDone

SpecTransform == TransformInit /\ [][TransformNext]_vars

(* Claims about the record transformation *)

HelperReturned == helperOut # None /\ helperOut[1].ok

\* C1: every result getData returns has one row per raw record, in the
\* payload's iteration order; every row has one value per requested field
\* name, and values[i] is the value resolved (and transformed) for
\* fieldNames[i] of that record.
C1_RowsAlignWithRequest ==
    HelperReturned =>
        LET data       == helperCall[1].fetched.content.data
            fieldNames == helperCall[1].fieldNames
            rows       == helperOut[1].v.rows
        IN  /\ Len(rows) = Len(data.rows)
            /\ \A j \in 1..Len(rows) :
                  /\ Len(rows[j].values) = Len(fieldNames)
                  /\ \A i \in 1..Len(fieldNames) :
                        /\ transformNamedField(connector, fieldNames[i],
                                               data.rows[j]).ok
                        /\ rows[j].values[i] =
                              transformNamedField(connector, fieldNames[i],
                                                  data.rows[j]).v

\* A keyed payload of two records, requested as [b, a], came back as the
\* rows [false, 1] and [false, 3].
C1_Witness ==
    /\ HelperReturned
    /\ ~helperCall[1].fetched.content.data.isArray
    /\ helperCall[1].fetched.content.data.rows =
          <<[a |-> "1", b |-> "false"], [a |-> "3", b |-> "false"]>>
    /\ helperCall[1].fieldNames = <<"b", "a">>
    /\ helperOut[1].v.rows =
          <<[values |-> <<"false", "1">>], [values |-> <<"false", "3">>]>>

\* C2: when every requested field name exists in the connector's schema,
\* the schema of the returned result has the length of the request and its
\* i-th field is the one named by the i-th requested name, whatever the
\* order of declaration.
C2_SchemaFollowsRequest ==
    (/\ HelperReturned
     /\ \A i \in 1..Len(helperCall[1].fieldNames) :
           \E k \in 1..Len(connector.schema) :
               connector.schema[k].name = helperCall[1].fieldNames[i])
    => /\ Len(helperOut[1].v.schema) = Len(helperCall[1].fieldNames)
       /\ \A i \in 1..Len(helperCall[1].fieldNames) :
             helperOut[1].v.schema[i].name = helperCall[1].fieldNames[i]

\* The schema declares a before b, the request asks for [b, a], and the
\* result's schema is [b, a].
C2_Witness ==
    /\ HelperReturned
    /\ connector.schema = <<Field("a", "A"), Field("b", "B")>>
    /\ helperCall[1].fieldNames = <<"b", "a">>
    /\ helperOut[1].v.schema = <<Field("b", "B"), Field("a", "A")>>

\* The first defined value of a sequence of candidates, undefined if none
RECURSIVE FirstDefined(_)
FirstDefined(candidates) ==
    IF candidates = <<>> THEN Undefined
    ELSE IF Head(candidates) # Undefined THEN Head(candidates)
    ELSE FirstDefined(Tail(candidates))

\* The four candidates of the stated precedence, in order
Candidates(conn, fieldName, receivedRow) ==
    <<IF conn.fieldMapping # None
      THEN Get(receivedRow, Get(conn.fieldMapping[1], fieldName))
      ELSE Undefined,
      Get(receivedRow, fieldName),
      IF conn.defaultFields # None
      THEN Get(conn.defaultFields[1], fieldName)
      ELSE Undefined,
      conn.defaultField>>

\* C3: for every record and requested field of a call, the resolved value
\* is the first defined one of (a) the raw value under the remapped key,
\* (b) the raw value under the field's own name, (c) defaultFields[field],
\* (d) defaultField.
C3_ResolutionPrecedence ==
    (helperCall # None /\ helperCall[1].fetched.ok
        /\ helperCall[1].fetched.content.parses)
    => \A j \in 1..Len(helperCall[1].fetched.content.data.rows) :
          \A i \in 1..Len(helperCall[1].fieldNames) :
              LET row   == helperCall[1].fetched.content.data.rows[j]
                  field == helperCall[1].fieldNames[i]
                  want  == FirstDefined(Candidates(connector, field, row))
                  got   == findFieldOrDefault(connector, field, row)
              IN  want # Undefined => (got.ok /\ got.v = want)

-----------------------------------------------------------------------------
(* The paginated stars connector: githubStarsConnector *)

\* UserError(message): an Error whose message is `DS_USER:${message}`.  It is
\* thrown as `new UserError(...)`; in the compiled script UserError is an
\* ordinary function, so the Error it returns is what is thrown.
UserError(message) ==
    [type |-> "Error", marker |-> "DS_USER:", text |-> message]

\* An error raised by the JavaScript runtime
RuntimeError(type, about) == [type |-> type, marker |-> "", text |-> about]

StarsSchema == <<Field("starred_at", "Starred At"), Field("stars", "Stars")>>

sampleData == <<[starred_at |-> "2017-05-31-T12:50:00Z"]>>

\* The records a page of stargazers may hold, and the page bodies
StarRecords == {[starred_at |-> "t1"], [starred_at |-> "t2"]}

PageBodies ==
    {<<>>, <<[starred_at |-> "t1"]>>,
     <<[starred_at |-> "t1"], [starred_at |-> "t2"]>>,
     <<[starred_at |-> "t2"], [starred_at |-> "t1"]>>}

\* The Link header of a response: absent, present without a rel="last"
\* entry, or present with the last page number
Links ==
    {None, Some([last |-> None])}
    \cup {Some([last |-> Some(n)]) : n \in 0..MaxPages}

\* What UrlFetchApp.fetch does for the first request: it throws, or it
\* returns a response (whose body the call never reads)
ProbeResponses ==
    {[ok |-> FALSE]}
    \cup {[ok |-> TRUE, link |-> l, parses |-> b,
           body |-> IF b THEN <<[starred_at |-> "t2"]>> ELSE <<>>] :
             l \in Links, b \in BOOLEAN}

\* What it does for a request of the loop: it throws, or returns a body that
\* does not parse, or returns a page of records
PageResponses ==
    {[ok |-> FALSE]}
    \cup {[ok |-> TRUE, link |-> None, parses |-> FALSE, body |-> <<>>]}
    \cup {[ok |-> TRUE, link |-> None, parses |-> TRUE, body |-> b] :
             b \in PageBodies}

\* request.scriptParams and request.fields of a getData request
StarsRequests ==
    {[scriptParams |-> sp, fields |-> f] :
        sp \in {None, Some([sampleExtraction |-> "true"]),
                Some([sampleExtraction |-> "false"])},
        f \in InjSeqsUpTo({"stars", "starred_at"}, 2)}

\* request.scriptParams && request.scriptParams.sampleExtraction === true
sampleMode(request) ==
    request.scriptParams # None
        /\ request.scriptParams[1].sampleExtraction = "true"

\* A fetchURL that reports a failing fetch with the message of the parser
fetchURL_parseMessage(response) ==
    IF response.ok
    THEN Return(response)
    ELSE Throw(UserError("Unable to parse data fetched from source."))

\* fetchURL: a throw of UrlFetchApp.fetch becomes a UserError
fetchURL(response) ==
    IF response.ok
    THEN Return(response)
    ELSE Throw(UserError("Unable to fetch data from source."))

\* A numberOfPages that takes every response for the only page
numberOfPages_single(initialResponse) == Return(1)

\* numberOfPages: without a Link header 1; with one, the number matched by
\* /\?page=([0-9]+)&per_page=[0-9]+>; rel="last"/; matches is null when the
\* header has no such entry, and matches[1] then throws
numberOfPages(initialResponse) ==
    IF initialResponse.link = None
    THEN Return(1)
    ELSE IF initialResponse.link[1].last = None
    THEN Throw(RuntimeError("TypeError", "matches is null"))
    ELSE Return(initialResponse.link[1].last[1])

\* A page parser that takes a body that does not parse for an empty page
parsePage_skip(response) ==
    IF response.parses THEN Return(response.body) ELSE Return(<<>>)

\* try { JSON.parse(currentResponse) } catch (e) { throw new UserError(...) }
parsePage(response) ==
    IF response.parses
    THEN Return(response.body)
    ELSE Throw(UserError("Unable to parse data fetched from source."))

\* A concatenation that puts the new page in front
concatStars_prepend(soFar, currentStarData) == currentStarData \o soFar

\* stars = stars.concat(currentStarData)
concatStars(soFar, currentStarData) == soFar \o currentStarData

\* getDataSchema: request.fields.map(field => this.keyedSchema[field.name])
getDataSchema(request) ==
    schemaForFields(makeKeyedSchema(StarsSchema), request.fields)

\* The row of one star: the callback given to dataSchema.forEach is a
\* plain function of a strict-mode script, so `this` is undefined in it and
\* this.STARRED_AT throws
rowOfStar(starData, dataSchema) ==
    MapOutcome([i \in 1..Len(dataSchema) |->
        IF dataSchema[i].name = "stars" THEN Return("1")
        ELSE IF dataSchema[i].name = "starred_at"
        THEN Throw(RuntimeError("TypeError", "this is undefined"))
        ELSE Return("")])

\* rowifyStarData: one {values} per star
rowifyStarData(starArray, dataSchema) ==
    LET rows == MapOutcome([j \in 1..Len(starArray) |->
                               rowOfStar(starArray[j], dataSchema)])
    IN  IF rows.ok
        THEN Return([j \in 1..Len(rows.v) |-> [values |-> rows.v[j]]])
        ELSE rows

\* The end of getData: the schema, the rows, the result {schema, rows}
finishGetData(request, starArray) ==
    LET rows == rowifyStarData(starArray, getDataSchema(request))
    IN  IF rows.ok
        THEN Return([schema |-> getDataSchema(request), rows |-> rows.v])
        ELSE rows

StarsInit ==
    /\ starsPc = "idle"
    /\ starsRequest = None
    /\ stars = <<>>
    /\ totalPages = 0
    /\ pageIndex = 0
    /\ fetchLog = <<>>
    /\ starsOut = None
    /\ instance = None
    /\ factoryCalls = 0
    /\ handleLog = <<>>
    /\ composer = None
    /\ userConfig = None
    /\ configOut = None
    /\ combineOptions = None
    /\ combined = None
    /\ composedCall = None
    /\ composedOut = None
    /\ delegated = <<>>
    /\ connector = None
    /\ helperCall = None
    /\ helperOut = None
    /\ keyedSchema = None
    /\ unkeyedSchema = None
    /\ knownConfig = None
    /\ getterLog = <<>>
    /\ schemaInput = None
    /\ schemaViews = None

\* getData(request) up to its first fetch: in sample mode the whole call
StarsGetData ==
    /\ starsPc = "idle"
    /\ \E request \in StarsRequests :
          /\ starsRequest' = Some(request)
          /\ stars' = IF sampleMode(request) THEN sampleData ELSE <<>>
          /\ starsPc' = IF sampleMode(request) THEN "done" ELSE "probe"
          /\ starsOut' = IF sampleMode(request)
                         THEN Some(finishGetData(request, sampleData))
                         ELSE None
    /\ UNCHANGED <<totalPages, pageIndex, fetchLog>>
    /\ UNCHANGED <<transformVars, schemaVars, composerVars, handleVars>>

\* var initialResponse = this.fetchURL(request, 1);
\* var totalPages = this.numberOfPages(initialResponse); and, when the loop
\* has nothing to do, the rest of the call
StarsProbe ==
    /\ starsPc = "probe"
    /\ \E response \in ProbeResponses :
          LET fetched == fetchURL(response)
              pages   == IF fetched.ok THEN numberOfPages(response) ELSE fetched
              more    == pages.ok /\ 1 <= pages.v
          IN  /\ fetchLog' = Append(fetchLog,
                    [page |-> 1, response |-> response, parsed |-> FALSE])
              /\ totalPages' = IF pages.ok THEN pages.v ELSE totalPages
              /\ pageIndex' = IF pages.ok THEN 1 ELSE pageIndex
              /\ starsPc' = IF more THEN "loop" ELSE "done"
              /\ starsOut' = IF more THEN None
                             ELSE IF pages.ok
                             THEN Some(finishGetData(starsRequest[1], stars))
                             ELSE Some(pages)
    /\ UNCHANGED <<starsRequest, stars>>
    /\ UNCHANGED <<transformVars, schemaVars, composerVars, handleVars>>

\* One turn of for (var i = 1; i <= totalPages; i++): fetch page i, parse
\* it, append its records; after the last turn, the rest of the call
StarsFetchPage ==
    /\ starsPc = "loop"
    /\ \E response \in PageResponses :
          LET fetched == fetchURL(response)
              parsed  == IF fetched.ok THEN parsePage(response) ELSE fetched
              grown   == IF parsed.ok THEN concatStars(stars, parsed.v)
                         ELSE stars
              more    == parsed.ok /\ pageIndex + 1 <= totalPages
          IN  /\ fetchLog' = Append(fetchLog,
                    [page |-> pageIndex, response |-> response,
                     parsed |-> fetched.ok])
              /\ stars' = grown
              /\ pageIndex' = IF parsed.ok THEN pageIndex + 1 ELSE pageIndex
              /\ starsPc' = IF more THEN "loop" ELSE "done"
              /\ starsOut' = IF more THEN None
                             ELSE IF parsed.ok
                             THEN Some(finishGetData(starsRequest[1], grown))
                             ELSE Some(parsed)
    /\ UNCHANGED <<starsRequest, totalPages>>
    /\ UNCHANGED <<transformVars, schemaVars, composerVars, handleVars>>

StarsNext == StarsGetData \/ StarsProbe \/ StarsFetchPage

SpecStars == StarsInit /\ [][StarsNext]_vars

(* Claims about the paginated fetch *)

\* The page numbers fetched so far, in order
FetchedPages == [k \in 1..Len(fetchLog) |-> fetchLog[k].page]

\* The fetch failed, or its body was parsed and did not parse
FetchFailed(entry) == ~entry.response.ok

ParseFailed(entry) ==
    entry.response.ok /\ entry.parsed /\ ~entry.response.parses

NoFailure ==
    \A k \in 1..Len(fetchLog) :
        ~FetchFailed(fetchLog[k]) /\ ~ParseFailed(fetchLog[k])

\* The first response's Link header reports the last page n
ReportsLastPage(n) ==
    /\ Len(fetchLog) >= 1
    /\ fetchLog[1].response.ok
    /\ fetchLog[1].response.link = Some([last |-> Some(n)])

\* <<1, 1, 2, ..., n>>
PagesOneTwice(n) == <<1>> \o [k \in 1..n |-> k]

RECURSIVE BodiesFrom(_)
BodiesFrom(k) ==
    IF k > Len(fetchLog) THEN <<>>
    ELSE fetchLog[k].response.body \o BodiesFrom(k + 1)

\* C8: outside sample mode, when all fetches and parses succeeded, the
\* records turned into rows are those of the fetches of pages 1..N of the
\* loop, in page order and in-page order, each page once; the records of
\* the first fetch of page 1 are not among them a second time.
C8_StarsAreThePagesInOrder ==
    (/\ starsPc = "done"
     /\ ~sampleMode(starsRequest[1])
     /\ NoFailure
     /\ numberOfPages(fetchLog[1].response).ok)
    => /\ Len(fetchLog) = numberOfPages(fetchLog[1].response).v + 1
       /\ \A k \in 2..Len(fetchLog) : fetchLog[k].page = k - 1
       /\ stars = BodiesFrom(2)

\* Two pages, [t1, t2] and then [t2, t1], came after a first response whose
\* own body held t2: the records are t1, t2, t2, t1.
C8_Witness ==
    /\ starsPc = "done"
    /\ NoFailure
    /\ Len(fetchLog) = 3
    /\ fetchLog[1].response.body = <<[starred_at |-> "t2"]>>
    /\ fetchLog[2].response.body = <<[starred_at |-> "t1"], [starred_at |-> "t2"]>>
    /\ fetchLog[3].response.body = <<[starred_at |-> "t2"], [starred_at |-> "t1"]>>
    /\ stars = <<[starred_at |-> "t1"], [starred_at |-> "t2"],
                 [starred_at |-> "t2"], [starred_at |-> "t1"]>>

\* C9: a fetch that fails, or a page that does not parse, is the last fetch
\* of the call: the call has ended, with that failure and with no result.
C9_FailureEndsTheCall ==
    \A k \in 1..Len(fetchLog) :
        /\ FetchFailed(fetchLog[k])
           => /\ k = Len(fetchLog)
              /\ starsPc = "done"
              /\ starsOut =
                    Some(Throw(UserError("Unable to fetch data from source.")))
        /\ ParseFailed(fetchLog[k])
           => /\ k = Len(fetchLog)
              /\ starsPc = "done"
              /\ starsOut =
                    Some(Throw(UserError(
                        "Unable to parse data fetched from source.")))

\* Page 1 gave two records, page 2 did not parse: the call threw.
C9_Witness ==
    /\ Len(fetchLog) = 3
    /\ fetchLog[2].response.parses
    /\ Len(fetchLog[2].response.body) = 2
    /\ ParseFailed(fetchLog[3])
    /\ starsPc = "done"
    /\ ~starsOut[1].ok

-----------------------------------------------------------------------------
(* The connector composer: combineConnectors *)

connectorOptionKey == "combineConnectors__connectorSelection"

\* The subconnectors given as options.connectors
SubconnectorSets ==
    {[k \in {"issues", "stars"} |->
         [label |-> IF k = "issues" THEN "Issues" ELSE "Stars"]],
     [k \in {"stars"} |-> [label |-> "Stars"]]}

\* A configuration parameter of the shared config
ParamDef(name, displayName) == [name |-> name, displayName |-> displayName]

\* makeGetConfig(config): an array becomes {configParams, dateRangeRequired:
\* false}, an object is kept; the getter returns that one object
makeGetConfig(isArray, config) ==
    IF isArray
    THEN [configParams |-> config, dateRangeRequired |-> "false"]
    ELSE config

\* The shared configs: githubConnector's two parameters, no parameter, and
\* an object with dateRangeRequired set
SharedConfigs ==
    {makeGetConfig(TRUE, <<ParamDef("organization", "Organization"),
                           ParamDef("repository", "Repository")>>),
     makeGetConfig(TRUE, <<>>),
     makeGetConfig(FALSE,
        [configParams |-> <<ParamDef("organization", "Organization")>>,
         dateRangeRequired |-> "true"])}

\* The options of combineConnectors: connectors with Object.keys(connectors)
\* in the order the subconnectors were written (keys), the normalizedConfig
\* of the shared getConfig, and the optional validateConfig
ComposerOptions ==
    {o \in [connectors : SubconnectorSets,
            keys : InjSeqsUpTo({"issues", "stars"}, 2),
            getConfig : SharedConfigs,
            validateConfig : {None, Some("githubConnector")}] :
        {o.keys[i] : i \in 1..Len(o.keys)} = DOMAIN o.connectors}

\* The requests the host sends: the user's values for the shared parameters
\* and for the selection
ComposedRequests ==
    {[configParams |-> cp] :
        cp \in {m \in Mappings({"organization", "repository", connectorOptionKey},
                               {"", "google", "datastudio", "issues", "stars",
                                "bogus"}) :
                  /\ Get(m, "organization") \in {Undefined, "", "google"}
                  /\ Get(m, "repository") \in {Undefined, "datastudio"}
                  /\ Get(m, connectorOptionKey) \in
                        {Undefined, "issues", "stars", "bogus"}}}

\* githubConnector.validateConfig
validateConfig(configParams) ==
    IF ~Truthy(Get(configParams, "organization"))
    THEN Throw(UserError("You must provide an Organization."))
    ELSE IF ~Truthy(Get(configParams, "repository"))
    THEN Throw(UserError("You must provide a Repository."))
    ELSE Return(Undefined)

\* A validateFullConfig without the check of the selection
validateFullConfig_unchecked(options, configParams) ==
    IF options.validateConfig # None
    THEN validateConfig(configParams)
    ELSE Return(Undefined)

\* validateFullConfig: validateConfig if given, then the selection must
\* name a subconnector
validateFullConfig(options, configParams) ==
    LET validated == IF options.validateConfig # None
                     THEN validateConfig(configParams)
                     ELSE Return(Undefined)
    IN  IF ~validated.ok
        THEN validated
        ELSE IF Get(configParams, connectorOptionKey)
                    \notin DOMAIN options.connectors
        THEN Throw(UserError("Invalid Connector selected: "
                             \o Get(configParams, connectorOptionKey)))
        ELSE Return(Undefined)

\* getSchema / getData of the composed connector: validateFullConfig(request)
\* -- it is given the request, not request.configParams -- and then
\* getConnector(request).getSchema(request), resp. getData
composedMethod(options, op, request) ==
    LET valid == validateFullConfig(options, request)
        key   == Get(request.configParams, connectorOptionKey)
    IN  IF ~valid.ok
        THEN [out |-> valid, delegated |-> <<>>]
        ELSE IF key \notin DOMAIN options.connectors
        THEN [out |-> Throw(RuntimeError("TypeError",
                                         "getConnector(request) is undefined")),
              delegated |-> <<>>]
        ELSE [out |-> Return([from |-> key, op |-> op, request |-> request]),
              delegated |-> <<[key |-> key, op |-> op, request |-> request]>>]

\* The strings that are subconnector keys, in the order of
\* Array.prototype.sort (by code unit)
SortedKeyNames == <<"issues", "stars">>

\* keys.sort()
sort(keys) ==
    SelectSeq(SortedKeyNames, LAMBDA n : \E i \in 1..Len(keys) : keys[i] = n)

\* func of connectorOptionDef: {value: connectorKey, label: connector.label}
connectorOption(subconnector, connectorKey) ==
    [value |-> connectorKey, label |-> subconnector.label]

\* A mapObjectSorted that leaves Object.keys as they come
mapObjectSorted_unsorted(keys, object) ==
    [i \in 1..Len(keys) |-> connectorOption(object[keys[i]], keys[i])]

\* mapObjectSorted(object, func) with func = connectorOption:
\* Object.keys(object).sort().map(key => func(object[key], key, object))
mapObjectSorted(keys, object) ==
    [i \in 1..Len(sort(keys)) |->
        connectorOption(object[sort(keys)[i]], sort(keys)[i])]

connectorOptionDef(options) ==
    [type |-> "SELECT_SINGLE",
     name |-> connectorOptionKey,
     displayName |-> "Data Type",
     helpText |-> "Select the type of data you want.",
     options |-> mapObjectSorted(options.keys, options.connectors)]

\* A concat that, like push, adds to the receiver
concat_push(receiver, items) ==
    [result |-> receiver \o items, receiver |-> receiver \o items]

\* Array.prototype.concat: a new array; the receiver stays as it is
concat(receiver, items) ==
    [result |-> receiver \o items, receiver |-> receiver]

\* getFullConfig(request): the returned config, and the userConfig object
\* as the call leaves it
getFullConfig(options, config) ==
    LET joined == concat(config.configParams, <<connectorOptionDef(options)>>)
    IN  [result |-> [configParams |-> joined.result,
                     dateRangeRequired |-> config.dateRangeRequired],
         userConfig |-> [config EXCEPT !.configParams = joined.receiver]]

ComposerInit ==
    /\ composer \in ComposerOptions
    /\ userConfig = Some(composer.getConfig)
    /\ configOut = None
    /\ combineOptions = None
    /\ combined = None
    /\ composedCall = None
    /\ composedOut = None
    /\ delegated = <<>>
    /\ connector = None
    /\ helperCall = None
    /\ helperOut = None
    /\ keyedSchema = None
    /\ unkeyedSchema = None
    /\ knownConfig = None
    /\ getterLog = <<>>
    /\ schemaInput = None
    /\ schemaViews = None
    /\ starsPc = "idle"
    /\ starsRequest = None
    /\ stars = <<>>
    /\ totalPages = 0
    /\ pageIndex = 0
    /\ fetchLog = <<>>
    /\ starsOut = None
    /\ instance = None
    /\ factoryCalls = 0
    /\ handleLog = <<>>

ComposedCall(op) ==
    /\ composedCall = None
    /\ \E request \in ComposedRequests :
          /\ composedCall' = Some([op |-> op, request |-> request])
          /\ composedOut' = Some(composedMethod(composer, op, request).out)
          /\ delegated' = composedMethod(composer, op, request).delegated
    /\ UNCHANGED <<composer, userConfig, configOut, combineOptions, combined>>
    /\ UNCHANGED <<transformVars, schemaVars, starsVars, handleVars>>

ComposedGetSchema == ComposedCall("getSchema")

ComposedGetData == ComposedCall("getData")

\* The host has taken the outcome
ComposedDone ==
    /\ composedCall # None
    /\ composedCall' = None
    /\ composedOut' = None
    /\ delegated' = <<>>
    /\ UNCHANGED <<composer, userConfig, configOut, combineOptions, combined>>
    /\ UNCHANGED <<transformVars, schemaVars, starsVars, handleVars>>

\* getConfig(request) of the composed connector
ComposedGetConfig ==
    /\ configOut' = Some(getFullConfig(composer, userConfig[1]).result)
    /\ userConfig' = Some(getFullConfig(composer, userConfig[1]).userConfig)
    /\ UNCHANGED <<composer, composedCall, composedOut, delegated>>
    /\ UNCHANGED <<combineOptions, combined>>
    /\ UNCHANGED <<transformVars, schemaVars, starsVars, handleVars>>

ComposerNext ==
    ComposedGetSchema \/ ComposedGetData \/ ComposedDone \/ ComposedGetConfig

SpecComposer == ComposerInit /\ [][ComposerNext]_vars

(* Claims about the composed connector *)

\* The value of the selection parameter in the call's request.configParams
Selection == Get(composedCall[1].request.configParams, connectorOptionKey)

\* C10: a getSchema or getData call whose configParams give no value, or a
\* value that is no subconnector key, for the selection parameter fails with
\* an error carrying the DS_USER: marker, and invokes no subconnector.
C10_UnknownSelectionFails ==
    (composedCall # None /\ Selection \notin DOMAIN composer.connectors)
    => /\ ~composedOut[1].ok
       /\ composedOut[1].error.marker = "DS_USER:"
       /\ delegated = <<>>

\* A getData call selecting "bogus" on a composer without validateConfig
\* threw the user error of the dispatch and invoked nothing.
C10_Witness ==
    /\ composedCall # None
    /\ composedCall[1].op = "getData"
    /\ Selection = "bogus"
    /\ composer.validateConfig = None
    /\ ~composedOut[1].ok
    /\ composedOut[1].error.marker = "DS_USER:"
    /\ composedOut[1].error.text = "Invalid Connector selected: undefined"
    /\ delegated = <<>>

\* request.configParams of the call passes githubConnector.validateConfig,
\* or the composer has no validateConfig
PassesValidateConfig ==
    composer.validateConfig = None
        \/ validateConfig(composedCall[1].request.configParams).ok

\* C11: a getSchema (getData) call whose configParams pass validateConfig
\* and select an existing subconnector key K invokes getSchema (getData) of
\* subconnector K exactly once with the same request, invokes no other
\* subconnector, and returns that subconnector's result.
C11_SelectedSubconnectorServes ==
    (/\ composedCall # None
     /\ PassesValidateConfig
     /\ Selection \in DOMAIN composer.connectors)
    => /\ delegated = <<[key |-> Selection, op |-> composedCall[1].op,
                         request |-> composedCall[1].request]>>
       /\ composedOut[1] = Return([from |-> Selection,
                                   op |-> composedCall[1].op,
                                   request |-> composedCall[1].request])

\* C12: with validateConfig supplied, validateConfig is given
\* request.configParams, so that a request whose configParams hold a
\* non-empty organization and repository passes it: the call does not end
\* with an error of validateConfig; and when validateConfig fails on
\* request.configParams its error is the outcome and nothing is invoked.
C12_ValidateConfigSeesConfigParams ==
    (composedCall # None /\ composer.validateConfig # None)
    => LET validated == validateConfig(composedCall[1].request.configParams)
       IN  /\ validated.ok =>
                 /\ composedOut[1] # Throw(UserError(
                        "You must provide an Organization."))
                 /\ composedOut[1] # Throw(UserError(
                        "You must provide a Repository."))
           /\ ~validated.ok =>
                 (composedOut[1] = validated /\ delegated = <<>>)

\* C13: every getConfig call, also a repeated one and in any interleaving
\* with getSchema/getData, returns the shared parameters in their order
\* followed by exactly one selector parameter, which has one option per
\* subconnector; the length is that of the shared parameters plus one; the
\* shared config's own configParams are unmodified and dateRangeRequired is
\* the shared config's.
C13_ConfigIsSharedPlusSelector ==
    /\ userConfig[1] = composer.getConfig
    /\ configOut # None =>
          LET params == configOut[1].configParams
              shared == composer.getConfig.configParams
          IN  /\ Len(params) = Len(shared) + 1
              /\ SubSeq(params, 1, Len(shared)) = shared
              /\ params[Len(params)].name = connectorOptionKey
              /\ params[Len(params)].type = "SELECT_SINGLE"
              /\ Len(params[Len(params)].options)
                    = Cardinality(DOMAIN composer.connectors)
              /\ configOut[1].dateRangeRequired
                    = composer.getConfig.dateRangeRequired

\* getConfig has answered for the two shared parameters of githubConnector
\* and two subconnectors, while a getData call is under way.
C13_Witness ==
    /\ configOut # None
    /\ composedCall # None
    /\ Len(composer.getConfig.configParams) = 2
    /\ Len(configOut[1].configParams) = 3
    /\ Len(configOut[1].configParams[3].options) = 2

\* C14: the options of the selector are {value: key, label:
\* subconnector.label} for every subconnector, in ascending order of key
\* whatever the order in which the subconnectors were supplied.
C14_OptionsSortedByKey ==
    configOut # None =>
        LET options == configOut[1].configParams[
                           Len(configOut[1].configParams)].options
        IN  /\ options = SelectSeq(
                   <<[value |-> "issues", label |-> "Issues"],
                     [value |-> "stars", label |-> "Stars"]>>,
                   LAMBDA o : o.value \in DOMAIN composer.connectors)

\* The subconnectors were supplied as stars, issues; the options are
\* issues, stars.
C14_Witness ==
    /\ configOut # None
    /\ composer.keys = <<"stars", "issues">>
    /\ configOut[1].configParams[Len(configOut[1].configParams)].options
          = <<[value |-> "issues", label |-> "Issues"],
              [value |-> "stars", label |-> "Stars"]>>

-----------------------------------------------------------------------------
(* Composition: combineConnectors and validateSubconnector *)

\* A member that is a function
FunctionValue == "function(){}"

\* typeof of a member value
typeOf(value) ==
    IF value = FunctionValue THEN "function"
    ELSE IF value = Undefined THEN "undefined"
    ELSE IF value = "0" THEN "number"
    ELSE "string"

\* value instanceof Function
instanceofFunction(value) == value = FunctionValue

\* What may be given as a subconnector: a falsy value, or an object with or
\* without getData, getSchema, getConfig and with a label that is a string,
\* missing, or a number
Subconnectors ==
    {None} \cup
    {Some([getData |-> d, getSchema |-> s, getConfig |-> c, label |-> l]) :
        d \in {FunctionValue, Undefined}, s \in {FunctionValue, Undefined},
        c \in {FunctionValue, Undefined}, l \in {"Stars", Undefined, "0"}}

\* options.connectors, with its keys in for-in order
CombineOptions ==
    UNION {{[keys |-> k, connectors |-> c] :
               c \in [{k[i] : i \in 1..Len(k)} -> Subconnectors]} :
           k \in InjSeqsUpTo({"issues", "stars"}, 2)}

\* A validateSubconnector that accepts an object with getConfig
validateSubconnector_getConfigAllowed(subconnector) ==
    IF subconnector = None
    THEN Throw(RuntimeError("Error", "You provided a falsey connector"))
    ELSE IF ~instanceofFunction(subconnector[1].getData)
    THEN Throw(RuntimeError("Error", "subconnector requires .getData()"))
    ELSE IF ~instanceofFunction(subconnector[1].getSchema)
    THEN Throw(RuntimeError("Error", "subconnector requires .getSchema()"))
    ELSE Return(Undefined)

\* validateSubconnector.  Its fourth condition is
\* `! typeof subconnector.getSchema === 'string'`: the negation applies to
\* the typeof string, and the boolean it gives is compared with 'string'
validateSubconnector(subconnector) ==
    IF subconnector = None
    THEN Throw(RuntimeError("Error", "You provided a falsey connector"))
    ELSE IF ~instanceofFunction(subconnector[1].getData)
    THEN Throw(RuntimeError("Error", "subconnector requires .getData()"))
    ELSE IF ~instanceofFunction(subconnector[1].getSchema)
    THEN Throw(RuntimeError("Error", "subconnector requires .getSchema()"))
    ELSE IF (IF Truthy(typeOf(subconnector[1].getSchema))
             THEN "false" ELSE "true") = "string"
    THEN Throw(RuntimeError("Error", "subconnector requires a .label"))
    ELSE IF instanceofFunction(subconnector[1].getConfig)
    THEN Throw(RuntimeError("Error",
            "subconnector should NOT have .getConfig(); this is handled by combineConnectors"))
    ELSE Return(Undefined)

\* for(connectorKey in connectors) { try { validateSubconnector(...) }
\* catch(e) { throw new Error(`problem with subconnector ...`) } }, from the
\* i-th key on
RECURSIVE validateAll(_, _)
validateAll(options, i) ==
    IF i > Len(options.keys)
    THEN Return(Undefined)
    ELSE LET connectorKey == options.keys[i]
             checked == validateSubconnector(options.connectors[connectorKey])
         IN  IF checked.ok
             THEN validateAll(options, i + 1)
             ELSE Throw(RuntimeError("Error",
                     "problem with subconnector " \o connectorKey \o ": "
                         \o checked.error.text))

\* combineConnectors: the validation loop, then the connector object
combineConnectors(options) ==
    IF validateAll(options, 1).ok
    THEN Return([getConfig |-> FunctionValue, getSchema |-> FunctionValue,
                 getData |-> FunctionValue])
    ELSE validateAll(options, 1)

CombineInit ==
    /\ combineOptions \in {Some(o) : o \in CombineOptions}
    /\ combined = None
    /\ composer = None
    /\ userConfig = None
    /\ configOut = None
    /\ composedCall = None
    /\ composedOut = None
    /\ delegated = <<>>
    /\ connector = None
    /\ helperCall = None
    /\ helperOut = None
    /\ keyedSchema = None
    /\ unkeyedSchema = None
    /\ knownConfig = None
    /\ getterLog = <<>>
    /\ schemaInput = None
    /\ schemaViews = None
    /\ starsPc = "idle"
    /\ starsRequest = None
    /\ stars = <<>>
    /\ totalPages = 0
    /\ pageIndex = 0
    /\ fetchLog = <<>>
    /\ starsOut = None
    /\ instance = None
    /\ factoryCalls = 0
    /\ handleLog = <<>>

\* The call combineConnectors(options)
Combine ==
    /\ combined = None
    /\ combined' = Some(combineConnectors(combineOptions[1]))
    /\ UNCHANGED <<composer, composedCall, composedOut, delegated, userConfig,
                   configOut, combineOptions>>
    /\ UNCHANGED <<transformVars, schemaVars, starsVars, handleVars>>

CombineNext == Combine

SpecCombine == CombineInit /\ [][CombineNext]_vars

(* Claims about composition *)

\* The subconnector under key k is falsy, lacks getData or getSchema, or
\* has a getConfig function
Malformed(k) ==
    LET sub == combineOptions[1].connectors[k]
    IN  \/ sub = None
        \/ sub[1].getData # FunctionValue
        \/ sub[1].getSchema # FunctionValue
        \/ sub[1].getConfig = FunctionValue

\* The subconnector under key k has no label that is a string
Unlabelled(k) ==
    LET sub == combineOptions[1].connectors[k]
    IN  sub # None /\ typeOf(sub[1].label) # "string"

CombineKeys == DOMAIN combineOptions[1].connectors

\* The error message names key k
NamesKey(error, k) ==
    \E reason \in {"You provided a falsey connector",
                   "subconnector requires .getData()",
                   "subconnector requires .getSchema()",
                   "subconnector requires a .label",
                   "subconnector should NOT have .getConfig(); this is handled by combineConnectors"} :
        error.text = "problem with subconnector " \o k \o ": " \o reason

\* C15: composing subconnectors of which one is falsy, lacks getData or
\* getSchema, or has a getConfig function throws an error whose message
\* names the key of such a subconnector, and yields no connector; composing
\* well-formed subconnectors (labelled ones included) returns the connector.
C15_MalformedSubconnectorRejected ==
    combined # None =>
        /\ (\E k \in CombineKeys : Malformed(k))
              => /\ ~combined[1].ok
                 /\ \E k \in CombineKeys :
                       Malformed(k) /\ NamesKey(combined[1].error, k)
        /\ (\A k \in CombineKeys : ~Malformed(k) /\ ~Unlabelled(k))
              => combined[1].ok

\* Composing a well-formed issues and a stars with a getConfig function
\* threw the error that names stars.
C15_Witness ==
    /\ combined # None
    /\ combineOptions[1].keys = <<"issues", "stars">>
    /\ ~Malformed("issues")
    /\ combineOptions[1].connectors["stars"] # None
    /\ combineOptions[1].connectors["stars"][1].getData = FunctionValue
    /\ combineOptions[1].connectors["stars"][1].getSchema = FunctionValue
    /\ combineOptions[1].connectors["stars"][1].getConfig = FunctionValue
    /\ ~combined[1].ok
    /\ NamesKey(combined[1].error, "stars")

\* C16: composing subconnectors of which one has getSchema and getData but
\* no label that is a string throws an error naming that subconnector's key.
C16_UnlabelledSubconnectorRejected ==
    combined # None =>
        \A k \in CombineKeys :
            (/\ Unlabelled(k)
             /\ combineOptions[1].connectors[k][1].getData = FunctionValue
             /\ combineOptions[1].connectors[k][1].getSchema = FunctionValue
             /\ \A other \in CombineKeys \ {k} :
                   ~Malformed(other) /\ ~Unlabelled(other))
            => /\ ~combined[1].ok
               /\ NamesKey(combined[1].error, k)

-----------------------------------------------------------------------------
(* Schema conversion: makeKeyedSchema, makeUnkeyedSchema, makeSchemas_ *)

\* The fields a schema source may hold
SourceFields == {Field(n, l) : n \in {"a", "b"}, l \in {"A", "B"}}

UniqueNames(schema) ==
    \A i, j \in 1..Len(schema) : schema[i].name = schema[j].name => i = j

\* A schema source: an array of fields, or an object of fields (written here
\* as its fields in Object.keys order, the names being the keys)
SchemaSources ==
    {[isArray |-> TRUE, schema |-> f] : f \in SeqsUpTo(SourceFields, MaxFields)}
    \cup {[isArray |-> FALSE, schema |-> f] :
             f \in {g \in SeqsUpTo(SourceFields, MaxFields) : UniqueNames(g)}}

\* makeKeyedSchema given an array of names (what makeUnkeyedSchema returns):
\* field.name of a string is undefined, so each name is stored under the
\* key "undefined"
makeKeyedSchemaOfNames(names) ==
    IF names = <<>> THEN <<>>
    ELSE [k \in {Undefined} |-> names[Len(names)]]

ConvertInit ==
    /\ schemaInput \in {Some(x) : x \in SchemaSources}
    /\ schemaViews = None
    /\ keyedSchema = None
    /\ unkeyedSchema = None
    /\ knownConfig = None
    /\ getterLog = <<>>
    /\ connector = None
    /\ helperCall = None
    /\ helperOut = None
    /\ starsPc = "idle"
    /\ starsRequest = None
    /\ stars = <<>>
    /\ totalPages = 0
    /\ pageIndex = 0
    /\ fetchLog = <<>>
    /\ starsOut = None
    /\ instance = None
    /\ factoryCalls = 0
    /\ handleLog = <<>>
    /\ composer = None
    /\ userConfig = None
    /\ configOut = None
    /\ combineOptions = None
    /\ combined = None
    /\ composedCall = None
    /\ composedOut = None
    /\ delegated = <<>>

\* makeSchemas_(schema), which throws nothing
Convert ==
    /\ schemaViews = None
    /\ schemaViews' = Some(Return(
           makeSchemas_(schemaInput[1].isArray, schemaInput[1].schema)))
    /\ UNCHANGED <<keyedSchema, unkeyedSchema, knownConfig, getterLog,
                   schemaInput>>
    /\ UNCHANGED <<transformVars, starsVars, composerVars, handleVars>>

ConvertNext == Convert

SpecConvert == ConvertInit /\ [][ConvertNext]_vars

(* Claims about schema conversion *)

\* C17: conversion is lossless for schemas with unique names.  The views of
\* a keyed schema: the unkeyed view is the sequence of its fields, each
\* carrying its name, and converting that back gives the keyed schema
\* (keyed -> unkeyed -> keyed).  The views of an unkeyed schema: converting
\* the keyed view back gives the same set of fields
\* (unkeyed -> keyed -> unkeyed).
C17_ConversionLossless ==
    (schemaViews # None /\ UniqueNames(schemaInput[1].schema))
    => LET source == schemaInput[1].schema
           views  == schemaViews[1].v
       IN  IF schemaInput[1].isArray
           THEN LET back == makeUnkeyedSchema(
                               [keys |-> [i \in 1..Len(source) |-> source[i].name],
                                at   |-> views.keyedSchema])
                IN  {back[i] : i \in 1..Len(back)}
                       = {source[i] : i \in 1..Len(source)}
           ELSE /\ views.unkeyedSchema = source
                /\ makeKeyedSchemaOfNames(views.unkeyedSchema)
                      = views.keyedSchema

\* C18: a schema source with two fields of the same name makes the building
\* of the views fail; no keyed schema that lacks one of them is produced.
C18_DuplicateNamesRejected ==
    (/\ schemaViews # None
     /\ schemaInput[1].isArray
     /\ ~UniqueNames(schemaInput[1].schema))
    => ~schemaViews[1].ok

-----------------------------------------------------------------------------
(* Claims about missing fields and defaults *)

\* The call got as far as transforming records: the content was fetched and
\* parsed and the keyed schema exists
HelperTransforms ==
    /\ helperCall # None
    /\ helperCall[1].fetched.ok
    /\ helperCall[1].fetched.content.parses
    /\ connector.getKeyedSchema # None

\* The field resolves to no defined value in the record
Unresolved(field, row) ==
    FirstDefined(Candidates(connector, field, row)) = Undefined

\* The record has the field neither under its own name nor under the key
\* fieldMapping gives for it
Lacks(row, field) ==
    /\ field \notin DOMAIN row
    /\ connector.fieldMapping # None
          => Get(connector.fieldMapping[1], field) \notin DOMAIN row

\* C19: when a requested field resolves to no defined value in a record,
\* getData throws the missing-field error; its message names such a field
\* and the record it is missing from (the text that stands for the record
\* is that of no other record); nothing is returned.  Stated for connectors
\* without fieldMapping, where the remapped key plays no part.
C19_MissingFieldNamesFieldAndRecord ==
    LET data       == helperCall[1].fetched.content.data
        fieldNames == helperCall[1].fieldNames
    IN  (/\ HelperTransforms
         /\ connector.fieldMapping = None
         /\ \E j \in 1..Len(data.rows), i \in 1..Len(fieldNames) :
               Unresolved(fieldNames[i], data.rows[j]))
        => /\ ~helperOut[1].ok
           /\ helperOut[1].error.about = "Couldn't find field"
           /\ \E j \in 1..Len(data.rows), i \in 1..Len(fieldNames) :
                 /\ Unresolved(fieldNames[i], data.rows[j])
                 /\ helperOut[1].error.field = fieldNames[i]
                 /\ helperOut[1].error.row = templateText(data.rows[j])
                 /\ \A other \in RawRecords :
                       other # data.rows[j]
                          => templateText(other) # helperOut[1].error.row

\* C20: when a record lacks a requested field and defaultFields defines a
\* value for it, the field resolves to that value, falsy or not: the call
\* throws no missing-field error for it, and a returned row holds the
\* (transformed) default at the field's position.
C20_DefaultFieldsFillMissing ==
    LET data       == helperCall[1].fetched.content.data
        fieldNames == helperCall[1].fieldNames
    IN  HelperTransforms =>
          \A j \in 1..Len(data.rows), i \in 1..Len(fieldNames) :
            (/\ Lacks(data.rows[j], fieldNames[i])
             /\ connector.defaultFields # None
             /\ fieldNames[i] \in DOMAIN connector.defaultFields[1])
            => /\ findFieldOrDefault(connector, fieldNames[i], data.rows[j])
                    = Return(connector.defaultFields[1][fieldNames[i]])
               /\ ~helperOut[1].ok
                    => Get(helperOut[1].error, "field") # fieldNames[i]
               /\ helperOut[1].ok
                    => helperOut[1].v.rows[j].values[i]
                          = transformField(connector,
                                connector.defaultFields[1][fieldNames[i]],
                                fieldNames[i])

\* A record without b, with defaultFields {b: 0} and no scalar default: the
\* call returned and the row holds 0 for b.
C20_Witness ==
    /\ HelperTransforms
    /\ helperOut[1].ok
    /\ connector.defaultFields = Some([b |-> "0"])
    /\ connector.defaultField = Undefined
    /\ helperCall[1].fieldNames = <<"b", "a">>
    /\ Len(helperCall[1].fetched.content.data.rows) = 1
    /\ "b" \notin DOMAIN helperCall[1].fetched.content.data.rows[1]
    /\ helperOut[1].v.rows[1].values[1] = "0"

-----------------------------------------------------------------------------
(* Claims about the per-field transform *)

\* C21: every value of a returned row is transformers[fieldName] applied to
\* the resolved value when a transform is configured for the field name,
\* and the resolved value itself otherwise; values that came from
\* defaultFields or defaultField are transformed as well.
C21_TransformAfterResolution ==
    HelperReturned =>
        LET data       == helperCall[1].fetched.content.data
            fieldNames == helperCall[1].fieldNames
            rows       == helperOut[1].v.rows
        IN  \A j \in 1..Len(rows), i \in 1..Len(fieldNames) :
              LET resolved == findFieldOrDefault(connector, fieldNames[i],
                                                 data.rows[j]).v
                  configured == /\ connector.transformers # None
                                /\ fieldNames[i] \in
                                      DOMAIN connector.transformers[1]
              IN  rows[j].values[i] =
                     IF configured
                     THEN ApplyTransformer(
                              connector.transformers[1][fieldNames[i]],
                              resolved)
                     ELSE resolved

\* A record without a, the scalar default d and a transform for a: the row
\* holds fmt(d) for a, and the untransformed raw value for b.
C21_Witness ==
    /\ HelperReturned
    /\ connector.transformers = Some([a |-> "fmt"])
    /\ connector.fieldMapping = None
    /\ connector.defaultField = "d"
    /\ helperCall[1].fieldNames = <<"a", "b">>
    /\ Len(helperCall[1].fetched.content.data.rows) = 1
    /\ DOMAIN helperCall[1].fetched.content.data.rows[1] = {"b"}
    /\ helperOut[1].v.rows[1].values = <<"fmt(d)", "false">>

-----------------------------------------------------------------------------
(* Further claims about the stars connector *)

\* C22: in sample mode the call makes no fetch and returns rows made from
\* the canned payload, one per canned record; outside sample mode it makes
\* at least one fetch.
C22_SampleModeBypassesFetch ==
    starsPc = "done" =>
        IF sampleMode(starsRequest[1])
        THEN /\ fetchLog = <<>>
             /\ stars = sampleData
             /\ starsOut[1].ok
             /\ Len(starsOut[1].v.rows) = Len(sampleData)
        ELSE Len(fetchLog) >= 1

\* The first response came, and its headers give no last page number: no
\* Link header, or a Link header without a rel="last" entry
NoLastPage ==
    /\ Len(fetchLog) >= 1
    /\ fetchLog[1].response.ok
    /\ \/ fetchLog[1].response.link = None
       \/ fetchLog[1].response.link = Some([last |-> None])

\* C23: when the first response encodes no last page number, the page
\* count is 1: the call fetches page 1 a second time and, no fetch or parse
\* failing, ends after these two fetches with that page's records (and,
\* when starred_at is not among the requested fields, with a result).
C23_NoLastPageMeansOnePage ==
    (starsPc = "done" /\ NoLastPage)
    => /\ Len(fetchLog) >= 2
       /\ NoFailure =>
             /\ FetchedPages = <<1, 1>>
             /\ stars = fetchLog[2].response.body
             /\ (\A i \in 1..Len(starsRequest[1].fields) :
                    starsRequest[1].fields[i] # "starred_at")
                   => starsOut[1].ok

FetchErrorText == "Unable to fetch data from source."

ParseErrorText == "Unable to parse data fetched from source."

\* C24: a fetch that fails ends the call with the fetch error, a fetched
\* page that does not parse ends it with the parse error; the two errors
\* differ, and neither failure is reported as the other.
C24_FetchAndParseErrorsDistinct ==
    /\ UserError(FetchErrorText) # UserError(ParseErrorText)
    /\ \A k \in 1..Len(fetchLog) :
          /\ FetchFailed(fetchLog[k])
                => /\ ~starsOut[1].ok
                   /\ starsOut[1].error.text = FetchErrorText
                   /\ starsOut[1].error.text # ParseErrorText
          /\ ParseFailed(fetchLog[k])
                => /\ ~starsOut[1].ok
                   /\ starsOut[1].error.text = ParseErrorText
                   /\ starsOut[1].error.text # FetchErrorText

\* The fetch of page 2 failed after page 1 had been fetched and parsed: the
\* call threw the fetch error.
C24_Witness ==
    /\ Len(fetchLog) = 3
    /\ ParseFailed(fetchLog[3]) = FALSE
    /\ FetchFailed(fetchLog[3])
    /\ fetchLog[2].response.parses
    /\ starsOut = Some(Throw(UserError(FetchErrorText)))

\* C25 (stars connector): every result getData returns has cachedData
\* equal to false.
C25_CachedDataIsFalse ==
    (starsPc = "done" /\ starsOut[1].ok)
    => /\ "cachedData" \in DOMAIN starsOut[1].v
       /\ starsOut[1].v.cachedData = FALSE

\* The call got as far as making rows: sample mode, or every page fetched
\* and parsed
StarsRowified ==
    /\ starsPc = "done"
    /\ \/ sampleMode(starsRequest[1])
       \/ /\ Len(fetchLog) >= 1
          /\ NoFailure
          /\ numberOfPages(fetchLog[1].response).ok

\* C28: making the rows raises no error, and every row has one value per
\* requested field in requested order: 1 for stars, the record's
\* starred_at for starred_at.
C28_StarRowsFollowRequest ==
    StarsRowified =>
        /\ starsOut[1].ok
        /\ Len(starsOut[1].v.rows) = Len(stars)
        /\ \A j \in 1..Len(stars) :
              starsOut[1].v.rows[j].values =
                 [i \in 1..Len(starsRequest[1].fields) |->
                     IF starsRequest[1].fields[i] = "stars"
                     THEN "1"
                     ELSE stars[j].starred_at]

-----------------------------------------------------------------------------
(* Further claims about the dynamic-schema cache *)

\* C27: the check compares over the keys of the incoming params only, with
\* strict equality.  After a first call, which caches its params, a second
\* call whose params have, under each of their keys, the cached value is
\* served from the cache without recomputation; a second call with a key
\* whose value differs from the cached one recomputes.  The params of
\* neither call are modified.
C27_CompareOverIncomingKeys ==
    Len(getterLog) >= 2 =>
        LET incoming == getterLog[2].configParams
            cached   == getterLog[1].configParams
        IN  /\ badShallowCompare_(incoming, cached)
                  = ~ParamsDiffer(incoming, cached)
            /\ badShallowCompare_(incoming, cached)
                  => getterLog[2].invoked = 0
            /\ ~badShallowCompare_(incoming, cached)
                  => getterLog[2].invoked = 1

-----------------------------------------------------------------------------
(* The memoized client handle: singleton, getOAuthService, resetAuth *)

\* What func() does: it returns a new service object, or it throws
FactoryOutcomes(n) ==
    {Return(n + 1),
     Throw(RuntimeError("Error", "OAuth2.createService"))}

\* A wrapper that calls func on every call
singletonCall_uncached(held, made) ==
    [instance |-> IF made.ok THEN Some(made.v) ELSE held,
     outcome  |-> IF made.ok THEN Return(Some(made.v)) ELSE made,
     invoked  |-> TRUE]

\* wrapper: instance === sentinel ? (instance = func()) : instance.  When
\* func throws, the assignment does not take place.
singletonCall(held, made) ==
    IF held = None
    THEN [instance |-> IF made.ok THEN Some(made.v) ELSE held,
          outcome  |-> IF made.ok THEN Return(Some(made.v)) ELSE made,
          invoked  |-> TRUE]
    ELSE [instance |-> held, outcome |-> Return(held), invoked |-> FALSE]

\* wrapper.reset: local = instance; instance = sentinel; return local
singletonReset(held) == [instance |-> None, outcome |-> Return(held)]

\* resetAuth: getOAuthService.reset().reset().  What wrapper.reset returns
\* is the service, whose reset() is then called, or the sentinel {}, which
\* has no reset
resetAuth(held) ==
    [instance |-> singletonReset(held).instance,
     outcome  |-> IF singletonReset(held).outcome.v = None
                  THEN Throw(RuntimeError("TypeError",
                          "getOAuthService.reset(...).reset is not a function"))
                  ELSE Return(Undefined)]

HandleInit ==
    /\ instance = None
    /\ factoryCalls = 0
    /\ handleLog = <<>>
    /\ connector = None
    /\ helperCall = None
    /\ helperOut = None
    /\ keyedSchema = None
    /\ unkeyedSchema = None
    /\ knownConfig = None
    /\ getterLog = <<>>
    /\ schemaInput = None
    /\ schemaViews = None
    /\ starsPc = "idle"
    /\ starsRequest = None
    /\ stars = <<>>
    /\ totalPages = 0
    /\ pageIndex = 0
    /\ fetchLog = <<>>
    /\ starsOut = None
    /\ composer = None
    /\ userConfig = None
    /\ configOut = None
    /\ combineOptions = None
    /\ combined = None
    /\ composedCall = None
    /\ composedOut = None
    /\ delegated = <<>>

\* A call getOAuthService()
GetOAuthService ==
    /\ Len(handleLog) < MaxEvents
    /\ \E made \in FactoryOutcomes(factoryCalls) :
          LET after == singletonCall(instance, made)
          IN  /\ after.invoked \/ made.ok
              /\ instance' = after.instance
              /\ factoryCalls' = IF after.invoked THEN factoryCalls + 1
                                 ELSE factoryCalls
              /\ handleLog' = Append(handleLog,
                    [op |-> "call", invoked |-> after.invoked,
                     outcome |-> after.outcome])
    /\ UNCHANGED <<transformVars, schemaVars, starsVars, composerVars>>

\* A call getOAuthService.reset()
SingletonReset ==
    /\ Len(handleLog) < MaxEvents
    /\ instance' = singletonReset(instance).instance
    /\ handleLog' = Append(handleLog,
          [op |-> "reset", invoked |-> FALSE,
           outcome |-> singletonReset(instance).outcome])
    /\ UNCHANGED factoryCalls
    /\ UNCHANGED <<transformVars, schemaVars, starsVars, composerVars>>

\* A call resetAuth()
ResetAuth ==
    /\ Len(handleLog) < MaxEvents
    /\ instance' = resetAuth(instance).instance
    /\ handleLog' = Append(handleLog,
          [op |-> "resetAuth", invoked |-> FALSE,
           outcome |-> resetAuth(instance).outcome])
    /\ UNCHANGED factoryCalls
    /\ UNCHANGED <<transformVars, schemaVars, starsVars, composerVars>>

HandleNext == GetOAuthService \/ SingletonReset \/ ResetAuth

SpecHandle == HandleInit /\ [][HandleNext]_vars

(* Claims about the memoized client handle *)

IsReset(entry) == entry.op \in {"reset", "resetAuth"}

\* The index of the last reset before the k-th call, 0 when there is none
LastResetBefore(k) ==
    IF \E j \in 1..(k - 1) : IsReset(handleLog[j])
    THEN CHOOSE j \in 1..(k - 1) :
            /\ IsReset(handleLog[j])
            /\ \A i \in (j + 1)..(k - 1) : ~IsReset(handleLog[i])
    ELSE 0

\* The calls of getOAuthService() between the last reset (or construction)
\* and the k-th call
CallsSinceReset(k) ==
    {j \in (LastResetBefore(k) + 1)..(k - 1) : handleLog[j].op = "call"}

\* The instance held when the k-th call is made, by the history alone: the
\* one returned since the last reset, if any
HeldBefore(k) ==
    IF \E j \in CallsSinceReset(k) : handleLog[j].outcome.ok
    THEN handleLog[CHOOSE j \in CallsSinceReset(k) :
                      handleLog[j].outcome.ok].outcome.v
    ELSE None

\* C26 as stated: the factory is invoked only on the first call after
\* construction or after a reset.
C26_FactoryOnlyOnFirstCall ==
    \A k \in 1..Len(handleLog) :
        (handleLog[k].op = "call" /\ handleLog[k].invoked)
        => CallsSinceReset(k) = {}

\* C26 amended: the factory is invoked exactly on the calls made while no
\* instance is held, that is on the first call after construction or after
\* a reset and on the calls that follow a call in which the factory threw;
\* every call between two resets that returns, returns the same instance;
\* reset returns the instance that was held and the next call invokes the
\* factory again; the instance held is discarded by nothing but a reset.
C26_FactoryOnlyWithoutInstance ==
    /\ instance = HeldBefore(Len(handleLog) + 1)
    /\ \A k \in 1..Len(handleLog) :
          /\ handleLog[k].op = "call"
                => /\ handleLog[k].invoked = (HeldBefore(k) = None)
                   /\ HeldBefore(k) # None
                         => handleLog[k].outcome = Return(HeldBefore(k))
                   /\ \A j \in CallsSinceReset(k) :
                         (handleLog[j].outcome.ok /\ handleLog[k].outcome.ok)
                         => handleLog[j].outcome = handleLog[k].outcome
          /\ handleLog[k].op = "reset"
                => handleLog[k].outcome = Return(HeldBefore(k))

\* Two calls returned the first instance, a reset returned it, and the call
\* after the reset invoked the factory again and returned a second one.
C26_Witness ==
    /\ Len(handleLog) = 4
    /\ handleLog[1] = [op |-> "call", invoked |-> TRUE,
                       outcome |-> Return(Some(1))]
    /\ handleLog[2] = [op |-> "call", invoked |-> FALSE,
                       outcome |-> Return(Some(1))]
    /\ handleLog[3] = [op |-> "reset", invoked |-> FALSE,
                       outcome |-> Return(Some(1))]
    /\ handleLog[4] = [op |-> "call", invoked |-> TRUE,
                       outcome |-> Return(Some(2))]
    /\ instance = Some(2)

\* C30: resetAuth completes without error in every state of the handle,
\* also before the handle was initialised and twice in a row, and leaves
\* the handle uninitialised.
C30_ResetAuthNeverFails ==
    \A k \in 1..Len(handleLog) :
        handleLog[k].op = "resetAuth"
        => /\ handleLog[k].outcome.ok
           /\ HeldBefore(k + 1) = None
           /\ k = Len(handleLog) => instance = None

====
